---- MODULE Spec2Model ----
(***************************************************************************)
(* A model of StripeService (src/src/stripeService.ts): the constructor,   *)
(* createCheckoutSession, getCheckoutSession and handleWebhook with its    *)
(* dispatch to the per-event-type handlers.  The payment processor's SDK   *)
(* is the environment: what its calls return or throw is chosen            *)
(* nondeterministically.                                                   *)
(***************************************************************************)
EXTENDS Integers, Sequences, FiniteSets, TLC

VARIABLES service, ctor, checkout, calls

vars == <<service, ctor, checkout, calls>>

(***************************************************************************)
(* JavaScript values, as far as the code looks at them.                    *)
(***************************************************************************)
Undefined == [t |-> "undefined", n |-> 0, s |-> ""]
JsNull == [t |-> "null", n |-> 0, s |-> ""]
NaN == [t |-> "NaN", n |-> 0, s |-> ""]
Num(n) == [t |-> "number", n |-> n, s |-> ""]
Str(s) == [t |-> "string", n |-> 0, s |-> s]

\* JavaScript's ToBoolean, the test behind every `!x` of the service.
Truthy(v) ==
    CASE v.t = "undefined" -> FALSE
      [] v.t = "null" -> FALSE
      [] v.t = "NaN" -> FALSE
      [] v.t = "number" -> v.n # 0
      [] v.t = "string" -> v.s # ""

\* Reading a property of an object: undefined when the key is absent.
Prop(obj, k) == IF k \in DOMAIN obj THEN obj[k] ELSE Undefined

\* Object spread {...a, ...b}: b's keys win.
Spread(a, b) ==
    [k \in (DOMAIN a) \cup (DOMAIN b) |-> IF k \in DOMAIN b THEN b[k] ELSE a[k]]

\* The rest of an object after destructuring away the keys ks.
Rest(obj, ks) == [k \in (DOMAIN obj) \ ks |-> obj[k]]

(***************************************************************************)
(* Error kinds (src/unnamed/part_000) with their status codes.             *)
(***************************************************************************)
ErrorCode(name) ==
    CASE name = "StripeInitializationError" -> 400
      [] name = "MissingRequiredParameterError" -> 422
      [] name = "CheckoutSessionCreationError" -> 400
      [] name = "SessionRetrievalError" -> 400
      [] name = "WebhookSignatureVerificationError" -> 400
      [] name = "WebhookProcessingError" -> 400
      [] OTHER -> 500

NoError == [name |-> "none", code |-> 0]
Err(name) == [name |-> name, code |-> ErrorCode(name)]

(***************************************************************************)
(* The constructor.                                                        *)
(***************************************************************************)
NoService == [exists |-> FALSE, apiKey |-> Undefined, apiVersion |-> "",
              maxNetworkRetries |-> 0, webhookSecret |-> Undefined]

NotConstructed == [attempted |-> FALSE, key |-> Undefined, secret |-> Undefined,
                   thrown |-> NoError, sdkCreated |-> FALSE]

KeyRequired(stripeSecretKey) == ~Truthy(stripeSecretKey)

\* Faulty variant: the webhook secret is not checked.
SecretRequiredMut(webhookSecret) == FALSE

SecretRequired(webhookSecret) == ~Truthy(webhookSecret)

\* new StripeService(stripeSecretKey, webhookSecret): what is thrown, whether
\* the SDK client was created, and the instance (none when it threw).
Constructor(stripeSecretKey, webhookSecret) ==
    IF KeyRequired(stripeSecretKey)
    THEN [thrown |-> Err("StripeInitializationError"), sdkCreated |-> FALSE,
          instance |-> NoService]
    ELSE IF SecretRequired(webhookSecret)
    THEN [thrown |-> Err("StripeInitializationError"), sdkCreated |-> FALSE,
          instance |-> NoService]
    ELSE [thrown |-> NoError, sdkCreated |-> TRUE,
          instance |-> [exists |-> TRUE, apiKey |-> stripeSecretKey,
                        apiVersion |-> "2025-01-27.acacia",
                        maxNetworkRetries |-> 3,
                        webhookSecret |-> webhookSecret]]

ApiKeys == {Undefined, JsNull, Str(""), Str("sk_test_1")}
WebhookSecrets == {Undefined, Str(""), Str("whsec_A"), Str("whsec_B")}

(***************************************************************************)
(* createCheckoutSession.                                                  *)
(***************************************************************************)
RawErr(name) == [name |-> name, code |-> 0]

NoReturn == [returned |-> FALSE, url |-> Undefined, sessionId |-> Undefined]

\* The guard of line 52.
MissingRequired(amount, currency, successUrl, cancelUrl) ==
    ~Truthy(amount) \/ ~Truthy(currency) \/ ~Truthy(successUrl) \/ ~Truthy(cancelUrl)

\* The line item of lines 61-71: the fixed fields, then the spread of the
\* request's other fields.
LineItem(amount, currency, otherLineItemData) ==
    Spread([price_data |-> [currency |-> currency,
                            product_data |-> [name |-> "Your Product Name"],
                            unit_amount |-> amount],
            quantity |-> Num(1)],
           otherLineItemData)

\* The argument of stripe.checkout.sessions.create, lines 58-77.
SessionCreateParams(amount, currency, successUrl, cancelUrl, otherLineItemData, uuid) ==
    [payment_method_types |-> <<"card">>,
     line_items |-> <<LineItem(amount, currency, otherLineItemData)>>,
     mode |-> "payment",
     success_url |-> successUrl.s \o "?session_id={CHECKOUT_SESSION_ID}",
     cancel_url |-> cancelUrl.s,
     client_reference_id |-> uuid]

\* The try block, lines 49-79.  outcome is what the processor's create does.
TryCreate(input, uuid, outcome) ==
    IF input.kind # "object"
    THEN [thrown |-> RawErr("TypeError"), value |-> NoReturn, sent |-> <<>>]
    ELSE LET amount == Prop(input.fields, "amount")
             currency == Prop(input.fields, "currency")
             successUrl == Prop(input.fields, "successUrl")
             cancelUrl == Prop(input.fields, "cancelUrl")
             otherLineItemData ==
                 Rest(input.fields, {"amount", "currency", "successUrl", "cancelUrl"})
         IN  IF MissingRequired(amount, currency, successUrl, cancelUrl)
             THEN [thrown |-> Err("MissingRequiredParameterError"),
                   value |-> NoReturn, sent |-> <<>>]
             ELSE LET params == SessionCreateParams(amount, currency, successUrl,
                                                    cancelUrl, otherLineItemData, uuid)
                  IN  IF outcome.throws
                      THEN [thrown |-> RawErr("StripeError"), value |-> NoReturn,
                            sent |-> <<params>>]
                      ELSE [thrown |-> NoError,
                            value |-> [returned |-> TRUE,
                                       url |-> outcome.session.url,
                                       sessionId |-> outcome.session.id],
                            sent |-> <<params>>]

\* Faulty variant: the error is rethrown as it is.
CatchCreateMut(r) == r

\* The catch block, lines 80-85.
CatchCreate(r) ==
    IF r.thrown # NoError
    THEN [r EXCEPT !.thrown = Err("CheckoutSessionCreationError")]
    ELSE r

createCheckoutSession(input, uuid, outcome) == CatchCreate(TryCreate(input, uuid, outcome))

(***************************************************************************)
(* getCheckoutSession.                                                     *)
(***************************************************************************)
NoSession == [id |-> Undefined, url |-> Undefined, payment_status |-> ""]

\* Faulty variant: the sessionId is not checked.
SessionIdRequiredMut(sessionId) == FALSE

\* The guard of line 94.
SessionIdRequired(sessionId) == ~Truthy(sessionId)

\* The try block, lines 92-99.  outcome is what the processor's retrieve does.
TryRetrieve(input, outcome) ==
    IF input.kind # "object"
    THEN [thrown |-> RawErr("TypeError"), returned |-> FALSE, value |-> NoSession,
          retrieved |-> <<>>]
    ELSE LET sessionId == Prop(input.fields, "sessionId")
         IN  IF SessionIdRequired(sessionId)
             THEN [thrown |-> Err("MissingRequiredParameterError"), returned |-> FALSE,
                   value |-> NoSession, retrieved |-> <<>>]
             ELSE IF outcome.throws
             THEN [thrown |-> RawErr("StripeError"), returned |-> FALSE,
                   value |-> NoSession, retrieved |-> <<sessionId>>]
             ELSE [thrown |-> NoError, returned |-> TRUE, value |-> outcome.session,
                   retrieved |-> <<sessionId>>]

\* The catch block, lines 100-103.
CatchRetrieve(r) ==
    IF r.thrown # NoError
    THEN [r EXCEPT !.thrown = Err("SessionRetrievalError")]
    ELSE r

getCheckoutSession(input, outcome) == CatchRetrieve(TryRetrieve(input, outcome))

(***************************************************************************)
(* handleWebhook: verification, then dispatch by event type.               *)
(***************************************************************************)
\* What JSON.parse of a payload can give: no event at all (the payload
\* "null"), or an event object with a type and, possibly, its data object.
NoEvent == [kind |-> "null", id |-> "", type |-> "", data |-> ""]
Event(id, type, data) == [kind |-> "object", id |-> id, type |-> type, data |-> data]

\* stripe.webhooks.constructEvent(payload, signature, secret), line 114: it
\* throws unless the signature was made with the secret and the payload
\* parses, and then gives the parsed payload.
constructEvent(payload, signature, secret) ==
    IF signature # secret.s
    THEN [throws |-> TRUE, event |-> NoEvent]
    ELSE IF ~payload.wellFormed
    THEN [throws |-> TRUE, event |-> NoEvent]
    ELSE [throws |-> FALSE, event |-> payload.body]

\* Lines 113-124.
\* Faulty variant: one error kind for both phases.
VerifyPhaseWrongKind(payload, signature, secret) ==
    LET r == constructEvent(payload, signature, secret)
    IN  IF r.throws
        THEN [verified |-> FALSE, event |-> NoEvent,
              thrown |-> Err("WebhookProcessingError")]
        ELSE [verified |-> TRUE, event |-> r.event, thrown |-> NoError]

\* Faulty variant: the catch block logs and does not rethrow.
VerifyPhaseSwallow(payload, signature, secret) ==
    LET r == constructEvent(payload, signature, secret)
    IN  IF r.throws
        THEN [verified |-> FALSE, event |-> NoEvent, thrown |-> NoError]
        ELSE [verified |-> TRUE, event |-> r.event, thrown |-> NoError]

VerifyPhase(payload, signature, secret) ==
    LET r == constructEvent(payload, signature, secret)
    IN  IF r.throws
        THEN [verified |-> FALSE, event |-> NoEvent,
              thrown |-> Err("WebhookSignatureVerificationError")]
        ELSE [verified |-> TRUE, event |-> r.event, thrown |-> NoError]

\* The body every handler shares: read event.data.object and its fields, log
\* them under the handler's label, return the event.  Reading a field of a
\* missing data object throws a TypeError.
HandlerBody(name, label, event) ==
    IF event.data = "object"
    THEN [thrown |-> NoError, returned |-> "event", value |-> event,
          handlers |-> <<name>>, log |-> <<label>>]
    ELSE [thrown |-> RawErr("TypeError"), returned |-> "none", value |-> NoEvent,
          handlers |-> <<name>>, log |-> <<>>]

handlePaymentIntentCreated(event) ==
    HandlerBody("handlePaymentIntentCreated", "Payment Intent Created:", event)

handlePaymentIntentSucceeded(event) ==
    HandlerBody("handlePaymentIntentSucceeded", "Payment Intent Succeeded:", event)

handleChargeUpdated(event) ==
    HandlerBody("handleChargeUpdated", "Charge Updated:", event)

handleChargeSucceeded(event) ==
    HandlerBody("handleChargeSucceeded", "Charge Succeeded:", event)

handleCheckoutSessionCompleted(event) ==
    HandlerBody("handleCheckoutSessionCompleted", "Checkout Session Completed:", event)

\* Faulty variant: the case falls through to the next one.
CreatedCaseGuardMut(event) == FALSE

\* The if of line 140, inside the case of line 139.
CreatedCaseGuard(event) == event.type = "payment_intent.created"

\* Faulty variant: the default case returns the event.
UnhandledEventMut(event) ==
    [thrown |-> NoError, returned |-> "event", value |-> event, handlers |-> <<>>,
     log |-> <<"Unhandled event type: " \o event.type>>]

\* The default case, lines 157-159.
UnhandledEvent(event) ==
    [thrown |-> NoError, returned |-> "null", value |-> NoEvent, handlers |-> <<>>,
     log |-> <<"Unhandled event type: " \o event.type>>]

\* Lines 135-161.  Reading the type of no event throws a TypeError; the case
\* of payment_intent.created falls through to the next one when its if fails.
processWebhookEvent(event) ==
    IF event.kind # "object"
    THEN [thrown |-> RawErr("TypeError"), returned |-> "none", value |-> NoEvent,
          handlers |-> <<>>, log |-> <<>>]
    ELSE CASE event.type = "payment_intent.created" ->
                IF CreatedCaseGuard(event)
                THEN handlePaymentIntentCreated(event)
                ELSE handlePaymentIntentSucceeded(event)
           [] event.type = "payment_intent.succeeded" ->
                handlePaymentIntentSucceeded(event)
           [] event.type = "charge.updated" -> handleChargeUpdated(event)
           [] event.type = "charge.succeeded" -> handleChargeSucceeded(event)
           [] event.type = "checkout.session.completed" ->
                handleCheckoutSessionCompleted(event)
           [] OTHER -> UnhandledEvent(event)

\* Faulty variant: a handler's error is reported as a signature failure.
DispatchPhaseAsSignature(event) ==
    LET r == processWebhookEvent(event)
    IN  IF r.thrown # NoError
        THEN [r EXCEPT !.thrown = Err("WebhookSignatureVerificationError")]
        ELSE r

\* Lines 126-132.
DispatchPhase(event) ==
    LET r == processWebhookEvent(event)
    IN  IF r.thrown # NoError
        THEN [r EXCEPT !.thrown = Err("WebhookProcessingError")]
        ELSE r

\* handleWebhook as a whole, lines 106-133.
handleWebhook(payload, signature, secret) ==
    LET v == VerifyPhase(payload, signature, secret)
    IN  IF v.thrown # NoError
        THEN [thrown |-> v.thrown, returned |-> "none", value |-> NoEvent,
              handlers |-> <<>>, log |-> <<>>]
        ELSE DispatchPhase(v.event)

(***************************************************************************)
(* The inputs and the processor's answers the model draws from.            *)
(***************************************************************************)
Absent == [t |-> "absent", n |-> 0, s |-> ""]
Empty == [k \in {} |-> Absent]
Field(k, v) == IF v = Absent THEN Empty ELSE (k :> v)
Obj(f) == [kind |-> "object", fields |-> f]
NotAnObject == [kind |-> "undefined", fields |-> Empty]

Amounts == {Absent, Num(0), NaN, Num(500)}
Currencies == {Absent, Str(""), Str("usd"), Str("eur")}
SuccessUrls == {Absent, Str(""), Str("https://x/ok")}
CancelUrls == {Absent, Str(""), Str("https://x/cancel")}
ExtraQuantities == {Absent, Num(3)}
ExtraPriceData ==
    {Absent, [currency |-> Str("eur"), product_data |-> [name |-> "Other"],
              unit_amount |-> Num(1)]}
ExtraTaxRates == {Absent, Str("txr_1")}
Uuids == {"uuid-1", "uuid-2"}

ProcessorDown == [throws |-> TRUE, session |-> NoSession]

CreateOutcomes ==
    {ProcessorDown,
     [throws |-> FALSE,
      session |-> [id |-> Str("cs_1"), url |-> Str("https://checkout/cs_1"),
                   payment_status |-> "unpaid"]],
     [throws |-> FALSE,
      session |-> [id |-> Str("cs_2"), url |-> JsNull, payment_status |-> "unpaid"]]}

SessionIds == {Absent, Undefined, Str(""), Str("cs_1"), Str("cs_2")}

RetrieveOutcomes ==
    {ProcessorDown} \cup
    {[throws |-> FALSE, session |-> [id |-> Str(i), url |-> u, payment_status |-> p]] :
        i \in {"cs_1", "cs_2"}, u \in {JsNull, Str("https://checkout/cs")},
        p \in {"unpaid", "paid"}}

(***************************************************************************)
(* State: the service instance, the record of its construction, the        *)
(* checkout operation in progress or last completed, and the webhook calls.*)
(***************************************************************************)
Idle == [op |-> "none", phase |-> "idle"]

Construct ==
    /\ ~service.exists
    /\ \E k \in ApiKeys, w \in WebhookSecrets :
          LET r == Constructor(k, w)
          IN  /\ service' = r.instance
              /\ ctor' = [attempted |-> TRUE, key |-> k, secret |-> w,
                          thrown |-> r.thrown, sdkCreated |-> r.sdkCreated]
    /\ UNCHANGED <<checkout, calls>>

CreateInputs ==
    {NotAnObject} \cup
    {Obj(Field("amount", a) @@ Field("currency", c) @@ Field("successUrl", s)
         @@ Field("cancelUrl", x) @@ Field("quantity", q) @@ Field("price_data", p)
         @@ Field("tax_rates", t)) :
        a \in Amounts, c \in Currencies, s \in SuccessUrls, x \in CancelUrls,
        q \in ExtraQuantities, p \in ExtraPriceData, t \in ExtraTaxRates}

GetInputs == {NotAnObject} \cup {Obj(Field("sessionId", i)) : i \in SessionIds}

\* A caller calls createCheckoutSession: the call runs to its await of the
\* processor, or to its end when it throws before.
CallCreateCheckoutSession ==
    /\ service.exists
    /\ checkout.phase = "idle"
    /\ \E input \in CreateInputs, uuid \in Uuids :
          LET r == createCheckoutSession(input, uuid, ProcessorDown)
          IN  checkout' =
                IF r.sent = <<>>
                THEN [op |-> "createCheckoutSession", phase |-> "done",
                      input |-> input, asked |-> FALSE, outcome |-> ProcessorDown,
                      result |-> r]
                ELSE [op |-> "createCheckoutSession", phase |-> "awaiting",
                      input |-> input, uuid |-> uuid]
    /\ UNCHANGED <<service, ctor, calls>>

\* The processor's create settles and the call runs to its end.
CreateSettles ==
    /\ checkout.op = "createCheckoutSession"
    /\ checkout.phase = "awaiting"
    /\ \E outcome \in CreateOutcomes :
          checkout' = [op |-> "createCheckoutSession", phase |-> "done",
                       input |-> checkout.input, asked |-> TRUE,
                       outcome |-> outcome,
                       result |-> createCheckoutSession(checkout.input,
                                                        checkout.uuid, outcome)]
    /\ UNCHANGED <<service, ctor, calls>>

CallGetCheckoutSession ==
    /\ service.exists
    /\ checkout.phase = "idle"
    /\ \E input \in GetInputs :
          LET r == getCheckoutSession(input, ProcessorDown)
          IN  checkout' =
                IF r.retrieved = <<>>
                THEN [op |-> "getCheckoutSession", phase |-> "done",
                      input |-> input, asked |-> FALSE, outcome |-> ProcessorDown,
                      result |-> r]
                ELSE [op |-> "getCheckoutSession", phase |-> "awaiting",
                      input |-> input]
    /\ UNCHANGED <<service, ctor, calls>>

RetrieveSettles ==
    /\ checkout.op = "getCheckoutSession"
    /\ checkout.phase = "awaiting"
    /\ \E outcome \in RetrieveOutcomes :
          checkout' = [op |-> "getCheckoutSession", phase |-> "done",
                       input |-> checkout.input, asked |-> TRUE,
                       outcome |-> outcome,
                       result |-> getCheckoutSession(checkout.input, outcome)]
    /\ UNCHANGED <<service, ctor, calls>>

\* The caller has taken the result (the value or the error) of a finished call.
CallerResumes ==
    /\ checkout.phase = "done"
    /\ checkout' = Idle
    /\ UNCHANGED <<service, ctor, calls>>

(***************************************************************************)
(* The webhook calls: each is a call of handleWebhook, at a position of    *)
(* the method: Received (entered), Verifying (in constructEvent), Verified *)
(* or VerificationFailed (the first try/catch left), Dispatching (in       *)
(* processWebhookEvent), and Handled, Unrecognized or DispatchFailed (the  *)
(* second try/catch left).                                                 *)
(***************************************************************************)
NumCalls == 1
CallIds == 1..NumCalls

RecognizedTypes ==
    {"payment_intent.created", "payment_intent.succeeded", "charge.updated",
     "charge.succeeded", "checkout.session.completed"}
EventTypes == RecognizedTypes \cup {"invoice.paid", "payment_intent.canceled"}

\* event.data.object is there, event.data is an object without one, or the
\* event has no data.
DataShapes == {"object", "no_object", "missing"}

NoPayload == [wellFormed |-> FALSE, body |-> NoEvent]
Payloads ==
    {[wellFormed |-> FALSE, body |-> NoEvent], [wellFormed |-> TRUE, body |-> NoEvent]}
    \cup {[wellFormed |-> TRUE, body |-> Event("evt_1", t, d)] :
            t \in EventTypes, d \in DataShapes}
\* A signature header is named by the secret it was made with ("" for none).
Signatures == {"whsec_A", "whsec_B", ""}

IdleCall ==
    [pc |-> "idle", payload |-> NoPayload, signature |-> "", verified |-> FALSE,
     event |-> NoEvent, thrown |-> NoError, returned |-> "none", value |-> NoEvent,
     dispatched |-> 0, handlers |-> <<>>, log |-> <<>>]

NoCalls == [c \in CallIds |-> IdleCall]

\* A call is running when it is inside the synchronous part of handleWebhook,
\* from its entry to its return of the pending promise at the await of line
\* 127 or to its throw.  JavaScript runs it to completion: no other call
\* starts and no promise settles meanwhile.
Running(c) ==
    \/ calls[c].pc \in {"Received", "Verifying"}
    \/ calls[c].pc \in {"Verified", "VerificationFailed"} /\ calls[c].thrown = NoError

NoneRunning == \A d \in CallIds : ~Running(d)

\* A caller calls handleWebhook(payload, signature).
Receive(c) ==
    /\ service.exists
    /\ NoneRunning
    /\ calls[c].pc = "idle"
    /\ \E payload \in Payloads, signature \in Signatures :
          calls' = [calls EXCEPT ![c] = [@ EXCEPT !.pc = "Received",
                                                  !.payload = payload,
                                                  !.signature = signature]]
    /\ UNCHANGED <<service, ctor, checkout>>

\* The call enters the first try block and calls constructEvent.
StartVerifying(c) ==
    /\ calls[c].pc = "Received"
    /\ calls' = [calls EXCEPT ![c] = [@ EXCEPT !.pc = "Verifying"]]
    /\ UNCHANGED <<service, ctor, checkout>>

\* constructEvent returns or throws, and the first try/catch is left.
Verify(c) ==
    /\ calls[c].pc = "Verifying"
    /\ LET v == VerifyPhase(calls[c].payload, calls[c].signature, service.webhookSecret)
       IN  calls' = [calls EXCEPT ![c] =
                        [@ EXCEPT !.pc = IF v.verified THEN "Verified"
                                         ELSE "VerificationFailed",
                                  !.verified = v.verified,
                                  !.event = v.event,
                                  !.thrown = v.thrown]]
    /\ UNCHANGED <<service, ctor, checkout>>

\* Control reaches line 127 when the first try/catch threw nothing:
\* processWebhookEvent is called and runs, with the handler it picks,
\* synchronously to its end (no handler awaits anything): the handler has
\* been entered and its line logged when handleWebhook yields at the await,
\* the promise of processWebhookEvent still pending.
StartDispatch(c) ==
    /\ calls[c].pc \in {"Verified", "VerificationFailed"}
    /\ calls[c].thrown = NoError
    /\ LET r == processWebhookEvent(calls[c].event)
       IN  calls' = [calls EXCEPT ![c] = [@ EXCEPT !.pc = "Dispatching",
                                                  !.dispatched = @ + 1,
                                                  !.handlers = @ \o r.handlers,
                                                  !.log = @ \o r.log]]
    /\ UNCHANGED <<service, ctor, checkout>>

\* The promise of processWebhookEvent settles: handleWebhook resumes after
\* the await, and returns the value (line 128) or rethrows the error as
\* WebhookProcessingError (lines 129-131).
Dispatch(c) ==
    /\ calls[c].pc = "Dispatching"
    /\ NoneRunning
    /\ LET r == DispatchPhase(calls[c].event)
       IN  calls' = [calls EXCEPT ![c] =
                        [@ EXCEPT !.pc = IF r.thrown # NoError THEN "DispatchFailed"
                                         ELSE IF r.handlers # <<>> THEN "Handled"
                                         ELSE "Unrecognized",
                                  !.thrown = r.thrown,
                                  !.returned = r.returned,
                                  !.value = r.value]]
    /\ UNCHANGED <<service, ctor, checkout>>

Step(c) == StartVerifying(c) \/ Verify(c) \/ StartDispatch(c) \/ Dispatch(c)

Init ==
    /\ service = NoService
    /\ ctor = NotConstructed
    /\ checkout = Idle
    /\ calls = NoCalls

NextWebhook ==
    \/ Construct
    \/ \E c \in CallIds : Receive(c)
    \/ \E c \in CallIds : StartVerifying(c)
    \/ \E c \in CallIds : Verify(c)
    \/ \E c \in CallIds : StartDispatch(c)
    \/ \E c \in CallIds : Dispatch(c)

\* A call that has been received runs on: the event loop resumes every
\* pending continuation.
SpecWebhook == Init /\ [][NextWebhook]_vars /\ \A c \in CallIds : WF_vars(Step(c))

Next ==
    \/ Construct
    \/ CallCreateCheckoutSession
    \/ CreateSettles
    \/ CallGetCheckoutSession
    \/ RetrieveSettles
    \/ CallerResumes

Spec == Init /\ [][Next]_vars

(***************************************************************************)
(* The claims.                                                             *)
(***************************************************************************)
RequiredFields == {"amount", "currency", "successUrl", "cancelUrl"}
CreateDone == checkout.op = "createCheckoutSession" /\ checkout.phase = "done"
GetDone == checkout.op = "getCheckoutSession" /\ checkout.phase = "done"

AfterDispatch == {"Handled", "Unrecognized", "DispatchFailed"}
Terminal == AfterDispatch \cup {"VerificationFailed"}
VerificationThrows(c) ==
    constructEvent(calls[c].payload, calls[c].signature, service.webhookSecret).throws

\* C1: a handleWebhook call whose constructEvent fails ends with
\* WebhookSignatureVerificationError, returns nothing, and neither
\* processWebhookEvent nor any handler is invoked during it.
C1_FailedVerificationNeverDispatches ==
    \A c \in CallIds :
        (calls[c].pc \notin {"idle", "Received", "Verifying"} /\ VerificationThrows(c))
        => /\ calls[c].pc = "VerificationFailed"
           /\ calls[c].thrown = Err("WebhookSignatureVerificationError")
           /\ calls[c].returned = "none"
           /\ calls[c].dispatched = 0
           /\ calls[c].handlers = <<>>

\* A well-formed recognized event under a signature made with another secret
\* has been refused.
C1_Witness ==
    \E c \in CallIds :
        /\ calls[c].pc = "VerificationFailed"
        /\ calls[c].payload.wellFormed
        /\ calls[c].payload.body.type = "checkout.session.completed"
        /\ calls[c].signature # service.webhookSecret.s
        /\ calls[c].thrown = Err("WebhookSignatureVerificationError")

\* C2: a createCheckoutSession request in which a required field is absent,
\* empty or zero fails with CheckoutSessionCreationError, never with
\* MissingRequiredParameterError, and so does one whose processor call fails.
C2_CreateFailuresAreSessionCreateErrors ==
    CreateDone =>
        /\ checkout.result.thrown.name # "MissingRequiredParameterError"
        /\ \A k \in RequiredFields :
              (checkout.input.kind = "object" /\ ~Truthy(Prop(checkout.input.fields, k)))
              => /\ checkout.result.thrown = Err("CheckoutSessionCreationError")
                 /\ ~checkout.result.value.returned
        /\ (checkout.asked /\ checkout.outcome.throws)
              => /\ checkout.result.thrown = Err("CheckoutSessionCreationError")
                 /\ ~checkout.result.value.returned

\* A request whose amount alone is missing (zero) has failed.
C2_Witness ==
    /\ CreateDone
    /\ checkout.input.kind = "object"
    /\ Prop(checkout.input.fields, "amount") = Num(0)
    /\ \A k \in RequiredFields \ {"amount"} : Truthy(Prop(checkout.input.fields, k))
    /\ checkout.result.thrown = Err("CheckoutSessionCreationError")

\* C3: getCheckoutSession with an empty or absent sessionId fails with
\* SessionRetrievalError without calling the processor's retrieve; a failure
\* of retrieve is a SessionRetrievalError too; on success the processor's
\* session object is returned unchanged.
C3_RetrievalErrorsAndPassThrough ==
    GetDone =>
        /\ (checkout.input.kind = "object"
            /\ ~Truthy(Prop(checkout.input.fields, "sessionId")))
              => /\ checkout.result.thrown = Err("SessionRetrievalError")
                 /\ ~checkout.asked
                 /\ checkout.result.retrieved = <<>>
        /\ (checkout.asked /\ checkout.outcome.throws)
              => checkout.result.thrown = Err("SessionRetrievalError")
        /\ (checkout.asked /\ ~checkout.outcome.throws)
              => /\ checkout.result.thrown = NoError
                 /\ checkout.result.returned
                 /\ checkout.result.value = checkout.outcome.session
                 /\ checkout.result.retrieved =
                        <<Prop(checkout.input.fields, "sessionId")>>

\* A call with the empty sessionId has failed.
C3_Witness ==
    /\ GetDone
    /\ checkout.input.kind = "object"
    /\ Prop(checkout.input.fields, "sessionId") = Str("")
    /\ checkout.result.thrown = Err("SessionRetrievalError")

\* C4: a verified event whose type is none of the five recognized ones makes
\* handleWebhook return null without an error, and handleWebhook returns null
\* for such events only.
C4_UnrecognizedReturnsNull ==
    \A c \in CallIds :
        /\ (/\ calls[c].pc \in AfterDispatch
            /\ calls[c].event.kind = "object"
            /\ calls[c].event.type \notin RecognizedTypes)
              => /\ calls[c].pc = "Unrecognized"
                 /\ calls[c].returned = "null"
                 /\ calls[c].thrown = NoError
                 /\ calls[c].handlers = <<>>
        /\ calls[c].returned = "null"
              => /\ calls[c].verified
                 /\ calls[c].event.kind = "object"
                 /\ calls[c].event.type \notin RecognizedTypes

\* An invoice.paid event without a data object has been verified and
\* dispatched.
C4_Witness ==
    \E c \in CallIds :
        /\ calls[c].pc = "Unrecognized"
        /\ calls[c].event.type = "invoice.paid"
        /\ calls[c].event.data = "missing"
        /\ calls[c].returned = "null"

\* The handler dedicated to each recognized type (the table of the
\* specification).
Dedicated(type) ==
    CASE type = "payment_intent.created" -> "handlePaymentIntentCreated"
      [] type = "payment_intent.succeeded" -> "handlePaymentIntentSucceeded"
      [] type = "charge.updated" -> "handleChargeUpdated"
      [] type = "charge.succeeded" -> "handleChargeSucceeded"
      [] type = "checkout.session.completed" -> "handleCheckoutSessionCompleted"

RecognizedDispatched(c) ==
    /\ calls[c].pc \in AfterDispatch
    /\ calls[c].event.kind = "object"
    /\ calls[c].event.type \in RecognizedTypes

\* C5, as claimed: every verified event of a recognized type has exactly its
\* dedicated handler invoked and handleWebhook returns that very event.
C5_Original ==
    \A c \in CallIds :
        RecognizedDispatched(c)
        => /\ calls[c].handlers = <<Dedicated(calls[c].event.type)>>
           /\ calls[c].returned = "event"
           /\ calls[c].value = calls[c].payload.body

\* C5, amended: every verified event of a recognized type has exactly its
\* dedicated handler invoked (payment_intent.created does not fall through);
\* when the event carries its data object handleWebhook returns that very
\* event, and when it does not the call fails with WebhookProcessingError.
C5_DedicatedHandlerReturnsEvent ==
    \A c \in CallIds :
        /\ (/\ calls[c].pc = "Dispatching"
            /\ calls[c].event.kind = "object"
            /\ calls[c].event.type \in RecognizedTypes)
              => calls[c].handlers = <<Dedicated(calls[c].event.type)>>
        /\ RecognizedDispatched(c)
              => /\ calls[c].handlers = <<Dedicated(calls[c].event.type)>>
                 /\ calls[c].event.data = "object"
                      => /\ calls[c].pc = "Handled"
                         /\ calls[c].thrown = NoError
                         /\ calls[c].returned = "event"
                         /\ calls[c].value = calls[c].payload.body
                 /\ calls[c].event.data # "object"
                      => /\ calls[c].thrown = Err("WebhookProcessingError")
                         /\ calls[c].returned = "none"

\* A payment_intent.created event has been handled by its own handler.
C5_Witness ==
    \E c \in CallIds :
        /\ calls[c].pc = "Handled"
        /\ calls[c].event.type = "payment_intent.created"
        /\ calls[c].handlers = <<"handlePaymentIntentCreated">>
        /\ calls[c].value = calls[c].payload.body

\* C6: after a successful verification, an exception of processWebhookEvent
\* or of a handler reaches the caller as WebhookProcessingError; the caller
\* never sees another error kind than the two of handleWebhook, and sees
\* WebhookSignatureVerificationError only when constructEvent failed.
C6_ProcessingErrorsAreNotSignatureErrors ==
    \A c \in CallIds :
        /\ (/\ calls[c].pc \in AfterDispatch
            /\ processWebhookEvent(calls[c].event).thrown # NoError)
              => /\ calls[c].thrown = Err("WebhookProcessingError")
                 /\ calls[c].pc = "DispatchFailed"
        /\ calls[c].thrown \in {NoError, Err("WebhookSignatureVerificationError"),
                                Err("WebhookProcessingError")}
        /\ calls[c].thrown = Err("WebhookSignatureVerificationError")
              => /\ ~calls[c].verified
                 /\ VerificationThrows(c)
                 /\ calls[c].dispatched = 0

\* A verified charge.updated event without data has failed in its handler.
C6_Witness ==
    \E c \in CallIds :
        /\ calls[c].pc = "DispatchFailed"
        /\ calls[c].verified
        /\ calls[c].event.type = "charge.updated"
        /\ calls[c].event.data = "missing"
        /\ calls[c].handlers = <<"handleChargeUpdated">>
        /\ calls[c].thrown = Err("WebhookProcessingError")

\* The transitions of the state machine of the specification.
Edges ==
    {<<"idle", "Received">>, <<"Received", "Verifying">>,
     <<"Verifying", "Verified">>, <<"Verifying", "VerificationFailed">>,
     <<"Verified", "Dispatching">>, <<"Dispatching", "Handled">>,
     <<"Dispatching", "Unrecognized">>, <<"Dispatching", "DispatchFailed">>}

\* C7: a handleWebhook call moves along Received, Verifying, then Verified,
\* Dispatching and Handled or Unrecognized or a dispatch failure, or
\* VerificationFailed; Dispatching is entered from Verified only; nothing
\* changes in a call that has reached a terminal state; and every call that
\* was received reaches a terminal state.
C7_WebhookStateMachine ==
    /\ [][\A c \in CallIds :
            /\ calls'[c].pc # calls[c].pc => <<calls[c].pc, calls'[c].pc>> \in Edges
            /\ calls[c].pc \in Terminal => calls'[c] = calls[c]]_vars
    /\ [](\A c \in CallIds : calls[c].pc \in {"Dispatching"} \cup AfterDispatch
                                => calls[c].verified /\ calls[c].dispatched = 1)
    /\ \A c \in CallIds : (calls[c].pc = "Received") ~> (calls[c].pc \in Terminal)

\* A call has gone through Verified and Dispatching to a dispatch failure
\* on a payload that holds no event.
C7_Witness ==
    \E c \in CallIds :
        /\ calls[c].pc = "DispatchFailed"
        /\ calls[c].event.kind = "null"
        /\ calls[c].dispatched = 1

\* C8: a construction with an absent or empty API key or webhook secret
\* throws StripeInitializationError before the SDK client is created and
\* leaves no instance; an instance, and so every operation called, has both
\* secrets non-empty.
C8_ConstructionRequiresBothSecrets ==
    /\ (ctor.attempted /\ (~Truthy(ctor.key) \/ ~Truthy(ctor.secret)))
          => /\ ctor.thrown = Err("StripeInitializationError")
             /\ ~ctor.sdkCreated
             /\ ~service.exists
    /\ service.exists
          => /\ Truthy(service.apiKey)
             /\ Truthy(service.webhookSecret)
             /\ ctor.sdkCreated
             /\ ctor.thrown = NoError
    /\ checkout.op # "none" => service.exists

\* A construction with a key and an empty webhook secret has failed.
C8_Witness ==
    /\ ctor.attempted
    /\ Truthy(ctor.key)
    /\ ctor.secret = Str("")
    /\ ctor.thrown = Err("StripeInitializationError")
    /\ ~service.exists

\* C9, as claimed: whenever createCheckoutSession returns, the url and the
\* sessionId it returns are both non-empty.
C9_ReturnedUrlAndIdNonEmpty ==
    (CreateDone /\ checkout.result.value.returned)
    => /\ Truthy(checkout.result.value.url)
       /\ Truthy(checkout.result.value.sessionId)

\* C10, as claimed: the line item sent to the processor has quantity 1, the
\* request's amount as unit price and the request's currency, whatever other
\* fields the request carries.
C10_ExtrasNeverOverride ==
    (CreateDone /\ checkout.result.sent # <<>>)
    => LET item == checkout.result.sent[1].line_items[1]
       IN  /\ Len(checkout.result.sent[1].line_items) = 1
           /\ item.quantity = Num(1)
           /\ item.price_data.unit_amount = Prop(checkout.input.fields, "amount")
           /\ item.price_data.currency = Prop(checkout.input.fields, "currency")

====
